---- MODULE Spec2Model ----
(***************************************************************************)
(* Model of the Pastorate Hub API (src/main.py): the in-memory catalog,    *)
(* the demo collections and the five GET handlers, served by a pool of     *)
(* request workers.  The emoji glyphs that prefix the status strings of    *)
(* test_database are written as ASCII tags: "[ok] " for the check mark,    *)
(* "[x] " for the cross and "[!]  " for the warning sign.                  *)
(***************************************************************************)
EXTENDS Integers, Sequences, FiniteSets, TLC

VARIABLES LOCATIONS, DEMO_LEADERS, DEMO_NEWS, DEMO_GALLERY,
          environ, pc, route, arg, response, probe, result

globals == <<LOCATIONS, DEMO_LEADERS, DEMO_NEWS, DEMO_GALLERY>>
vars == <<LOCATIONS, DEMO_LEADERS, DEMO_NEWS, DEMO_GALLERY,
          environ, pc, route, arg, response, probe, result>>

(* ---------------- bounds of the model ---------------- *)
\* number of requests the server handles at the same time
NumWorkers == 2
\* largest number of collections the database enumerates
MaxColl == 11

Workers == 1..NumWorkers

(* ---------------- program constants ---------------- *)
\* collections[:10]
CollMax == 10
\* str(e)[:50]
ErrMsgMax == 50

PyNone == "<None>"

Min(a, b) == IF a < b THEN a ELSE b

\* Python s[:n] on a str or a list
Prefix(s, n) == SubSeq(s, 1, Min(n, Len(s)))

(* ---------------- demo data ---------------- *)
Location(slug, name, address, service_times, phone, email, hero_tagline) ==
    [slug |-> slug, name |-> name, address |-> address,
     service_times |-> service_times, phone |-> phone, email |-> email,
     hero_tagline |-> hero_tagline]

Leader(name, role, photo) == [name |-> name, role |-> role, photo |-> photo]

NewsItem(id, title, excerpt, date, url) ==
    [id |-> id, title |-> title, excerpt |-> excerpt, date |-> date, url |-> url]

GalleryImage(src, alt) == [src |-> src, alt |-> alt]

Catalog ==
    << Location("central-campus", "Central Congregation", "100 Main St, Cityville",
                <<"Sundays 9:00 AM", "Sundays 11:00 AM">>, "(555) 123-0001",
                "central@example.org", "A welcoming community in the heart of the city."),
       Location("north-campus", "North Congregation", "200 North Rd",
                <<"Sundays 10:00 AM">>, "(555) 123-0002", "north@example.org",
                "Growing together in faith."),
       Location("south-campus", "South Congregation", "300 South Ave",
                <<"Sundays 10:30 AM">>, "(555) 123-0003", "south@example.org",
                "Serving with joy."),
       Location("east-campus", "East Congregation", "400 East Blvd",
                <<"Sundays 9:30 AM">>, "(555) 123-0004", "east@example.org",
                "Hope for every home."),
       Location("west-campus", "West Congregation", "500 West Way",
                <<"Sundays 11:15 AM">>, "(555) 123-0005", "west@example.org",
                "Rooted and reaching."),
       Location("riverside-campus", "Riverside Congregation", "600 River Rd",
                <<"Sundays 9:00 AM">>, "(555) 123-0006", "riverside@example.org",
                "Life by the water."),
       Location("hillside-campus", "Hillside Congregation", "700 Hill St",
                <<"Sundays 10:00 AM">>, "(555) 123-0007", "hillside@example.org",
                "Lifted by grace.") >>

Leaders ==
    << Leader("Alex Morgan", "Lead Pastor",
              "https://images.unsplash.com/photo-1544006659-f0b21884ce1d?q=80&w=800&auto=format&fit=crop"),
       Leader("Jordan Lee", "Associate Pastor",
              "https://images.unsplash.com/photo-1547425260-76bcadfb4f2c?q=80&w=800&auto=format&fit=crop"),
       Leader("Taylor Kim", "Worship Director",
              "https://images.unsplash.com/photo-1527980965255-d3b416303d12?q=80&w=800&auto=format&fit=crop"),
       Leader("Riley Chen", "Next Gen Lead",
              "https://images.unsplash.com/photo-1544006658-85f8d80b2983?q=80&w=800&auto=format&fit=crop") >>

News ==
    << NewsItem(1, "Pastorate Vision Night",
                "Join us as we share the vision for the coming year.", "2025-01-15",
                "https://example.org/news/vision-night"),
       NewsItem(2, "Community Serve Day", "City-wide outreach across all locations.",
                "2025-02-01", "https://example.org/news/serve-day") >>

Gallery ==
    << GalleryImage("https://images.unsplash.com/photo-1488521787991-ed7bbaae773c?q=80&w=1200&auto=format&fit=crop", "Gathering"),
       GalleryImage("https://images.unsplash.com/photo-1520975682031-a3ee3e3c7b80?q=80&w=1200&auto=format&fit=crop", "Worship"),
       GalleryImage("https://images.unsplash.com/photo-1470225620780-dba8ba36b745?q=80&w=1200&auto=format&fit=crop", "Community") >>

KnownSlugs == {Catalog[i].slug : i \in 1..Len(Catalog)}

\* path parameters a client sends: every catalog slug, and strings that are
\* no slug of the catalog (other case, surrounding characters, a prefix, empty)
SlugInputs ==
    KnownSlugs \cup {"does-not-exist", "Central-Campus", " central-campus"}

(* ---------------- results of a request ---------------- *)
NoResult == [status |-> 0, body |-> PyNone]

Ok(body) == [status |-> 200, body |-> body]

\* raise HTTPException(status_code=..., detail=...)
HTTPException(status_code, detail) == [status |-> status_code, body |-> detail]

\* an exception that leaves a handler: the framework answers 500
Unhandled(e) == [status |-> 500, body |-> e.cls]

(* ---------------- the database dependency, as the probe sees it ---------------- *)
Exc(cls, msg) == [cls |-> cls, msg |-> msg]

NoExc == Exc("", "")

\* the classes below ImportError and below Exception in Python's hierarchy
ImportErrorClasses == {"ImportError", "ModuleNotFoundError"}

ExceptionClasses ==
    ImportErrorClasses \cup {"RuntimeError", "TypeError", "ConnectionError", "Exception"}

IsInstance(e, classes) == e.cls \in classes

LongMsg == "connection refused by mongodb.internal.example.org:27017 after 30000 ms"

\* `from database import db`: the module is absent, its import raises, or it
\* binds db to None or to a handle; hasattr(db, 'name') is False, or db.name
\* is a value, or reading it raises
NoHandle == [isNone |-> TRUE, nameAttr |-> "absent", name |-> "", nameExc |-> NoExc]

Handles ==
    { [isNone |-> FALSE, nameAttr |-> "absent", name |-> "", nameExc |-> NoExc],
      [isNone |-> FALSE, nameAttr |-> "value", name |-> "pastorate", nameExc |-> NoExc],
      [isNone |-> FALSE, nameAttr |-> "raises", name |-> "",
       nameExc |-> Exc("ConnectionError", LongMsg)] }

ImportOutcomes ==
    { [exc |-> e, db |-> NoHandle] :
        e \in { Exc("ModuleNotFoundError", "No module named 'database'"),
                Exc("ImportError", "cannot import name 'db' from 'database'"),
                Exc("RuntimeError", "DATABASE_URL is required") } }
    \cup { [exc |-> NoExc, db |-> d] : d \in Handles \cup {NoHandle} }

CollName(i) == "c" \o ToString(i)

\* db.list_collection_names(): a list of n names, a value that cannot be
\* sliced, or an exception
ListOutcomes ==
    { [exc |-> NoExc, sliceable |-> TRUE, names |-> [i \in 1..n |-> CollName(i)]] :
        n \in 0..MaxColl }
    \cup { [exc |-> NoExc, sliceable |-> FALSE, names |-> <<>>] }
    \cup { [exc |-> e, sliceable |-> FALSE, names |-> <<>>] :
            e \in { Exc("RuntimeError", "not authorized"), Exc("ConnectionError", LongMsg) } }

\* what a probe has seen of the dependency so far: the exception of the
\* import, whether db is None, the exception of reading db.name, and the
\* outcome of list_collection_names once it was called
Seen(o) == [exc |-> o.exc, isNone |-> o.db.isNone, nameExc |-> o.db.nameExc]

NoProbe == [imported |-> FALSE, imp |-> Seen([exc |-> NoExc, db |-> NoHandle]),
            listed |-> FALSE,
            lst |-> [exc |-> NoExc, sliceable |-> FALSE, names |-> <<>>]]

EnvValues == {PyNone, "", "mongodb://localhost:27017"}

\* os.getenv(name): None when the variable is unset
getenv(env, name) == env[name]

\* truth value of a str or None
Truthy(v) == v # PyNone /\ v # ""

(* ---------------- test_database ---------------- *)
InitialResponse ==
    [backend |-> "[ok] Running",
     database |-> "[x] Not Available",
     database_url |-> PyNone,
     database_name |-> PyNone,
     connection_status |-> "Not Connected",
     collections |-> <<>>]

NoResponse == [InitialResponse EXCEPT !.backend = ""]

\* OuterExcept without its `except Exception` clause
OuterExceptImportOnly(resp, e) ==
    IF IsInstance(e, ImportErrorClasses)
    THEN [response |-> [resp EXCEPT !.database =
                           "[x] Database module not found (run enable-database first)"],
          next |-> "return", exc |-> NoExc]
    ELSE [response |-> resp, next |-> "raise", exc |-> e]

\* the handlers of the outer try: except ImportError, except Exception
OuterExcept(resp, e) ==
    IF IsInstance(e, ImportErrorClasses)
    THEN [response |-> [resp EXCEPT !.database =
                           "[x] Database module not found (run enable-database first)"],
          next |-> "return", exc |-> NoExc]
    ELSE IF IsInstance(e, ExceptionClasses)
    THEN [response |-> [resp EXCEPT !.database = "[x] Error: " \o Prefix(e.msg, ErrMsgMax)],
          next |-> "return", exc |-> NoExc]
    ELSE [response |-> resp, next |-> "raise", exc |-> e]

\* the handler of the inner try: except Exception; what it does not catch
\* reaches the outer handlers
InnerExcept(resp, e) ==
    IF IsInstance(e, ExceptionClasses)
    THEN [response |-> [resp EXCEPT !.database =
                           "[!]  Connected but Error: " \o Prefix(e.msg, ErrMsgMax)],
          next |-> "return", exc |-> NoExc]
    ELSE OuterExcept(resp, e)

\* AfterImport with connection_status assigned before db.name is read
AfterImportStatusFirst(resp, o) ==
    IF o.exc # NoExc THEN OuterExcept(resp, o.exc)
    ELSE IF o.db.isNone
    THEN [response |-> [resp EXCEPT !.database = "[!]  Available but not initialized"],
          next |-> "return", exc |-> NoExc]
    ELSE LET r1 == [resp EXCEPT !.database = "[ok] Available",
                                !.database_url = "[ok] Configured",
                                !.connection_status = "Connected"]
         IN  IF o.db.nameAttr = "raises" THEN OuterExcept(r1, o.db.nameExc)
             ELSE [response |->
                      [r1 EXCEPT !.database_name =
                                    IF o.db.nameAttr = "value" THEN o.db.name
                                    ELSE "[ok] Connected"],
                   next |-> "list", exc |-> NoExc]

\* the import and the statements up to the call of list_collection_names
AfterImport(resp, o) ==
    IF o.exc # NoExc THEN OuterExcept(resp, o.exc)
    ELSE IF o.db.isNone
    THEN [response |-> [resp EXCEPT !.database = "[!]  Available but not initialized"],
          next |-> "return", exc |-> NoExc]
    ELSE LET r1 == [resp EXCEPT !.database = "[ok] Available",
                                !.database_url = "[ok] Configured"]
         IN  IF o.db.nameAttr = "raises" THEN OuterExcept(r1, o.db.nameExc)
             ELSE [response |->
                      [r1 EXCEPT !.database_name =
                                    IF o.db.nameAttr = "value" THEN o.db.name
                                    ELSE "[ok] Connected",
                                 !.connection_status = "Connected"],
                   next |-> "list", exc |-> NoExc]

\* AfterList without the slice
AfterListUnsliced(resp, o) ==
    IF o.exc # NoExc THEN InnerExcept(resp, o.exc)
    ELSE IF ~o.sliceable
    THEN InnerExcept(resp, Exc("TypeError", "'NoneType' object is not subscriptable"))
    ELSE [response |-> [resp EXCEPT !.collections = o.names,
                                    !.database = "[ok] Connected & Working"],
          next |-> "return", exc |-> NoExc]

\* the inner try: the call, the slice and the inner handler
AfterList(resp, o) ==
    IF o.exc # NoExc THEN InnerExcept(resp, o.exc)
    ELSE IF ~o.sliceable
    THEN InnerExcept(resp, Exc("TypeError", "'NoneType' object is not subscriptable"))
    ELSE [response |-> [resp EXCEPT !.collections = Prefix(o.names, CollMax),
                                    !.database = "[ok] Connected & Working"],
          next |-> "return", exc |-> NoExc]

EnvFlag(env, name) == IF Truthy(getenv(env, name)) THEN "[ok] Set" ELSE "[x] Not Set"

\* AfterEnv filling the two fields only where the probe left them None
AfterEnvKeep(resp, env) ==
    [resp EXCEPT !.database_url =
                    IF @ = PyNone THEN EnvFlag(env, "DATABASE_URL") ELSE @,
                 !.database_name =
                    IF @ = PyNone THEN EnvFlag(env, "DATABASE_NAME") ELSE @]

\* the two assignments after the try statement, and the return
AfterEnv(resp, env) ==
    [resp EXCEPT !.database_url = EnvFlag(env, "DATABASE_URL"),
                 !.database_name = EnvFlag(env, "DATABASE_NAME")]

(* ---------------- get_location, list_locations ---------------- *)
Matches(locs, slug) == {i \in 1..Len(locs) : locs[i].slug = slug}

\* FirstMatch answering with the record that follows the match
FirstMatchOffByOne(locs, slug) ==
    IF Matches(locs, slug) = {} THEN <<>>
    ELSE <<locs[((CHOOSE i \in Matches(locs, slug) :
                     \A j \in Matches(locs, slug) : i <= j) % Len(locs)) + 1]>>

\* next((l for l in LOCATIONS if l.slug == slug), None): the first match in
\* catalog order, as a sequence of one record, or <<>> for None
FirstMatch(locs, slug) ==
    IF Matches(locs, slug) = {} THEN <<>>
    ELSE <<locs[CHOOSE i \in Matches(locs, slug) : \A j \in Matches(locs, slug) : i <= j]>>

LocationDetail(location, leadership, news, gallery) ==
    [location |-> location, leadership |-> leadership, news |-> news, gallery |-> gallery]

\* get_location falling back to the first location instead of raising
get_location_fallback(locs, leaders, news, gallery, slug) ==
    LET loc == FirstMatch(locs, slug)
    IN  Ok(LocationDetail(IF loc = <<>> THEN locs[1] ELSE loc[1], leaders, news, gallery))

\* get_location keeping only the leaders and news of the location's rank
get_location_filtered(locs, leaders, news, gallery, slug) ==
    LET loc == FirstMatch(locs, slug)
    IN  IF loc = <<>> THEN HTTPException(404, "Location not found")
        ELSE Ok(LocationDetail(loc[1],
                               IF loc[1] = locs[1] THEN leaders ELSE Tail(leaders),
                               IF loc[1] = locs[1] THEN news ELSE Tail(news), gallery))

get_location(locs, leaders, news, gallery, slug) ==
    LET loc == FirstMatch(locs, slug)
    IN  IF loc = <<>> THEN HTTPException(404, "Location not found")
        ELSE Ok(LocationDetail(loc[1], leaders, news, gallery))

\* list_locations leaving out the first record
list_locations_tail(locs) == Ok(Tail(locs))

list_locations(locs) == Ok(locs)

read_root == Ok([message |-> "Hello from FastAPI Backend!"])

hello == Ok([message |-> "Hello from the backend API!"])

(* ---------------- the state machine ---------------- *)
Init ==
    /\ LOCATIONS = Catalog
    /\ DEMO_LEADERS = Leaders
    /\ DEMO_NEWS = News
    /\ DEMO_GALLERY = Gallery
    /\ environ \in [{"DATABASE_URL", "DATABASE_NAME"} -> EnvValues]
    /\ pc = [w \in Workers |-> "idle"]
    /\ route = [w \in Workers |-> ""]
    /\ arg = [w \in Workers |-> ""]
    /\ response = [w \in Workers |-> NoResponse]
    /\ probe = [w \in Workers |-> NoProbe]
    /\ result = [w \in Workers |-> NoResult]

\* a handler that runs from the request to its result in one step
Serve(w, r, a, res) ==
    /\ pc[w] = "idle"
    /\ pc' = [pc EXCEPT ![w] = "done"]
    /\ route' = [route EXCEPT ![w] = r]
    /\ arg' = [arg EXCEPT ![w] = a]
    /\ result' = [result EXCEPT ![w] = res]
    /\ UNCHANGED <<globals, environ, response, probe>>

ReadRoot(w) == Serve(w, "read_root", "", read_root)

Hello(w) == Serve(w, "hello", "", hello)

ListLocations(w) == Serve(w, "list_locations", "", list_locations(LOCATIONS))

\* GetLocation appending the record it found to the catalog
GetLocationAppend(w) ==
    \E slug \in SlugInputs :
        /\ pc[w] = "idle"
        /\ pc' = [pc EXCEPT ![w] = "done"]
        /\ route' = [route EXCEPT ![w] = "get_location"]
        /\ arg' = [arg EXCEPT ![w] = slug]
        /\ result' = [result EXCEPT ![w] =
              get_location(LOCATIONS, DEMO_LEADERS, DEMO_NEWS, DEMO_GALLERY, slug)]
        /\ LOCATIONS' = LOCATIONS \o FirstMatch(LOCATIONS, slug)
        /\ UNCHANGED <<DEMO_LEADERS, DEMO_NEWS, DEMO_GALLERY, environ, response, probe>>

GetLocation(w) ==
    \E slug \in SlugInputs :
        Serve(w, "get_location", slug,
              get_location(LOCATIONS, DEMO_LEADERS, DEMO_NEWS, DEMO_GALLERY, slug))

\* where test_database goes after a step of its try statement: on to the call
\* of list_collection_names, out with an exception no handler caught, or past
\* the try statement to the return
Continue(w, r) ==
    IF r.next = "list"
    THEN /\ response' = [response EXCEPT ![w] = r.response]
         /\ pc' = [pc EXCEPT ![w] = "list"]
         /\ UNCHANGED result
    ELSE IF r.next = "raise"
    THEN /\ response' = [response EXCEPT ![w] = r.response]
         /\ pc' = [pc EXCEPT ![w] = "done"]
         /\ result' = [result EXCEPT ![w] = Unhandled(r.exc)]
    ELSE LET final == AfterEnv(r.response, environ)
         IN  /\ response' = [response EXCEPT ![w] = final]
             /\ pc' = [pc EXCEPT ![w] = "done"]
             /\ result' = [result EXCEPT ![w] = Ok(final)]

TestBegin(w) ==
    /\ pc[w] = "idle"
    /\ pc' = [pc EXCEPT ![w] = "import"]
    /\ route' = [route EXCEPT ![w] = "test_database"]
    /\ response' = [response EXCEPT ![w] = InitialResponse]
    /\ UNCHANGED <<globals, environ, arg, probe, result>>

TestImport(w) ==
    /\ pc[w] = "import"
    /\ \E o \in ImportOutcomes :
          /\ probe' = [probe EXCEPT ![w].imported = TRUE, ![w].imp = Seen(o)]
          /\ Continue(w, AfterImport(response[w], o))
    /\ UNCHANGED <<globals, environ, route, arg>>

TestList(w) ==
    /\ pc[w] = "list"
    /\ \E o \in ListOutcomes :
          /\ probe' = [probe EXCEPT ![w].listed = TRUE, ![w].lst = o]
          /\ Continue(w, AfterList(response[w], o))
    /\ UNCHANGED <<globals, environ, route, arg>>

\* the import, or the call of list_collection_names, never answers: nothing
\* in test_database bounds the wait
DependencyHangs(w) ==
    /\ pc[w] \in {"import", "list"}
    /\ pc' = [pc EXCEPT ![w] = "blocked"]
    /\ UNCHANGED <<globals, environ, route, arg, response, probe, result>>

\* the result is sent and the worker takes the next request
Respond(w) ==
    /\ pc[w] = "done"
    /\ pc' = [pc EXCEPT ![w] = "idle"]
    /\ route' = [route EXCEPT ![w] = ""]
    /\ arg' = [arg EXCEPT ![w] = ""]
    /\ response' = [response EXCEPT ![w] = NoResponse]
    /\ probe' = [probe EXCEPT ![w] = NoProbe]
    /\ result' = [result EXCEPT ![w] = NoResult]
    /\ UNCHANGED <<globals, environ>>

Next ==
    \E w \in Workers :
        \/ ReadRoot(w)
        \/ Hello(w)
        \/ ListLocations(w)
        \/ GetLocation(w)
        \/ TestBegin(w)
        \/ TestImport(w)
        \/ TestList(w)
        \/ DependencyHangs(w)
        \/ Respond(w)

Spec == Init /\ [][Next]_vars

\* the server schedules every handler step and every send; whether the
\* database dependency answers is not the server's to decide
FairSpec ==
    /\ Spec
    /\ \A w \in Workers :
          /\ WF_vars(Respond(w))
          /\ WF_vars(TestImport(w) \/ TestList(w) \/ DependencyHangs(w))

(* ---------------- properties ---------------- *)
Done(w, r) == pc[w] = "done" /\ route[w] = r

CatalogSlugs == {LOCATIONS[i].slug : i \in 1..Len(LOCATIONS)}

StartsWith(s, tag) == Len(s) >= Len(tag) /\ SubSeq(s, 1, Len(tag)) = tag

\* C1: get_location of a slug of the catalog answers 200 with a detail whose
\* location is the catalog record of that slug; 'central-campus' is the
\* Central Congregation
KnownSlugFound ==
    \A w \in Workers :
        (Done(w, "get_location") /\ arg[w] \in CatalogSlugs) =>
            /\ result[w].status = 200
            /\ result[w].body.location.slug = arg[w]
            /\ \E i \in 1..Len(LOCATIONS) :
                  LOCATIONS[i].slug = arg[w] /\ result[w].body.location = LOCATIONS[i]
            /\ (arg[w] = "central-campus" =>
                  result[w].body.location.name = "Central Congregation")

KnownSlugServed ==
    \E w \in Workers :
        /\ Done(w, "get_location")
        /\ arg[w] = "riverside-campus"
        /\ result[w].status = 200

\* C2: get_location of a string that equals no slug of the catalog answers
\* 404 'Location not found' and nothing else
UnknownSlugNotFound ==
    \A w \in Workers :
        (Done(w, "get_location") /\ arg[w] \notin CatalogSlugs) =>
            result[w] = [status |-> 404, body |-> "Location not found"]

OtherCaseRefused ==
    \E w \in Workers :
        /\ Done(w, "get_location")
        /\ arg[w] = "Central-Campus"
        /\ result[w].status = 404

\* C3: whatever the database dependency did, test_database returns a response
\* (200) whose database field is a status string; no exception leaves it
ProbeNeverRaises ==
    \A w \in Workers :
        Done(w, "test_database") =>
            /\ result[w].status = 200
            /\ Len(result[w].body.database) > 0
            /\ result[w].body.database # InitialResponse.database

ProbeSurvivedFailures ==
    \E w1, w2 \in Workers :
        /\ Done(w1, "test_database")
        /\ Done(w2, "test_database")
        /\ probe[w1].imp.exc.cls = "RuntimeError"
        /\ probe[w2].imp.nameExc # NoExc
        /\ result[w1].status = 200
        /\ result[w2].status = 200

ProbeSurvivedBadList ==
    \E w1, w2 \in Workers :
        /\ Done(w1, "test_database")
        /\ Done(w2, "test_database")
        /\ probe[w1].listed /\ probe[w1].lst.exc # NoExc
        /\ probe[w2].listed /\ probe[w2].lst.exc = NoExc /\ ~probe[w2].lst.sliceable
        /\ result[w1].status = 200
        /\ result[w2].status = 200

\* C4: list_locations answers 200 with the configured catalog, the same
\* records in the same order, on every call, whatever else is being served
ListIsCatalog ==
    \A w \in Workers :
        Done(w, "list_locations") =>
            /\ result[w] = [status |-> 200, body |-> Catalog]
            /\ \A v \in Workers : Done(v, "list_locations") => result[v] = result[w]

ListedTwice ==
    \E w1, w2 \in Workers :
        /\ w1 # w2
        /\ Done(w1, "list_locations")
        /\ Done(w2, "list_locations")
        /\ Len(result[w1].body) = 7

\* C5: every detail get_location returns carries the whole demo leadership
\* (4), news (2) and gallery (3), the same for any two slugs; only the
\* location differs
SameDemoContent ==
    \A w \in Workers :
        (Done(w, "get_location") /\ result[w].status = 200) =>
            /\ result[w].body.leadership = Leaders /\ Len(result[w].body.leadership) = 4
            /\ result[w].body.news = News /\ Len(result[w].body.news) = 2
            /\ result[w].body.gallery = Gallery /\ Len(result[w].body.gallery) = 3
            /\ \A v \in Workers :
                  (Done(v, "get_location") /\ result[v].status = 200) =>
                      /\ result[v].body.leadership = result[w].body.leadership
                      /\ result[v].body.news = result[w].body.news
                      /\ result[v].body.gallery = result[w].body.gallery
                      /\ (arg[v] # arg[w] =>
                            result[v].body.location # result[w].body.location)

TwoSlugsServed ==
    \E w1, w2 \in Workers :
        /\ Done(w1, "get_location") /\ result[w1].status = 200
        /\ Done(w2, "get_location") /\ result[w2].status = 200
        /\ arg[w1] = "central-campus"
        /\ arg[w2] = "hillside-campus"

\* C6: in every reachable state the catalog and the demo collections are what
\* they were at startup, and the slugs of the catalog are pairwise distinct
DataImmutable ==
    /\ LOCATIONS = Catalog
    /\ DEMO_LEADERS = Leaders
    /\ DEMO_NEWS = News
    /\ DEMO_GALLERY = Gallery
    /\ \A i, j \in 1..Len(LOCATIONS) :
          LOCATIONS[i].slug = LOCATIONS[j].slug => i = j

ServedConcurrently ==
    \E w1, w2 \in Workers :
        /\ Done(w1, "get_location") /\ result[w1].status = 200
        /\ pc[w2] = "list" /\ route[w2] = "test_database"

\* C7: the collections field of a returned probe holds at most 10 names: the
\* first min(10, n) of the n enumerated names, in order, when the handle is
\* not None and the enumeration gave a list, and no name otherwise
Enumerated(w) ==
    probe[w].listed /\ probe[w].lst.exc = NoExc /\ probe[w].lst.sliceable

CollectionsCapped ==
    \A w \in Workers :
        (Done(w, "test_database") /\ result[w].status = 200) =>
            /\ Len(result[w].body.collections) <= 10
            /\ Enumerated(w) =>
                  /\ Len(result[w].body.collections) =
                        (IF Len(probe[w].lst.names) < 10 THEN Len(probe[w].lst.names) ELSE 10)
                  /\ \A i \in 1..Len(result[w].body.collections) :
                        result[w].body.collections[i] = probe[w].lst.names[i]
            /\ ~Enumerated(w) => result[w].body.collections = <<>>

ElevenCollectionsCut ==
    \E w \in Workers :
        /\ Done(w, "test_database")
        /\ Enumerated(w)
        /\ Len(probe[w].lst.names) > 10
        /\ Len(result[w].body.collections) = 10

\* C8: every probe that was started returns a response, whatever the
\* database dependency does
ProbeEventuallyReturns ==
    \A w \in Workers :
        (route[w] = "test_database" /\ pc[w] = "import") ~> Done(w, "test_database")

\* C9: database_url and database_name of a returned probe say only whether
\* DATABASE_URL and DATABASE_NAME are set to a non-empty value; two probes
\* agree on them whatever each saw of the database
IsSet(v) == v \notin {PyNone, ""}

EnvFieldsOnly ==
    \A w \in Workers :
        (Done(w, "test_database") /\ result[w].status = 200) =>
            /\ result[w].body.database_url =
                  (IF IsSet(environ["DATABASE_URL"]) THEN "[ok] Set" ELSE "[x] Not Set")
            /\ result[w].body.database_name =
                  (IF IsSet(environ["DATABASE_NAME"]) THEN "[ok] Set" ELSE "[x] Not Set")
            /\ \A v \in Workers :
                  (Done(v, "test_database") /\ result[v].status = 200) =>
                      /\ result[v].body.database_url = result[w].body.database_url
                      /\ result[v].body.database_name = result[w].body.database_name

ProbesSawDifferently ==
    \E w1, w2 \in Workers :
        /\ Done(w1, "test_database") /\ result[w1].status = 200
        /\ Done(w2, "test_database") /\ result[w2].status = 200
        /\ probe[w1].imp.exc # NoExc
        /\ Enumerated(w2)
        /\ environ["DATABASE_URL"] = ""
        /\ IsSet(environ["DATABASE_NAME"])

\* C10, as claimed: backend is Running; connection_status is Connected exactly
\* when the module imported and its handle is not None; database is
\* 'Connected & Working' exactly when the handle is not None and the
\* enumeration succeeded, 'Connected but Error' when it failed, 'Available
\* but not initialized' when the handle is None, 'module not found' on
\* ImportError
Imported(w) == probe[w].imported /\ probe[w].imp.exc = NoExc

HasHandle(w) == Imported(w) /\ ~probe[w].imp.isNone

DatabaseFieldTiers(w) ==
    /\ result[w].body.backend = "[ok] Running"
    /\ result[w].body.database = "[ok] Connected & Working" <=>
          (HasHandle(w) /\ Enumerated(w))
    /\ (probe[w].listed /\ ~Enumerated(w)) =>
          StartsWith(result[w].body.database, "[!]  Connected but Error: ")
    /\ (Imported(w) /\ probe[w].imp.isNone) =>
          result[w].body.database = "[!]  Available but not initialized"
    /\ (probe[w].imported /\ IsInstance(probe[w].imp.exc, ImportErrorClasses)) =>
          StartsWith(result[w].body.database, "[x] Database module not found")

ReachabilityAsClaimed ==
    \A w \in Workers :
        (Done(w, "test_database") /\ result[w].status = 200) =>
            /\ DatabaseFieldTiers(w)
            /\ result[w].body.connection_status =
                  (IF HasHandle(w) THEN "Connected" ELSE "Not Connected")

\* C10, amended: as claimed, but connection_status is Connected exactly when
\* the module imported, its handle is not None and reading the handle's name
\* did not raise
ReachabilityConsistent ==
    \A w \in Workers :
        (Done(w, "test_database") /\ result[w].status = 200) =>
            /\ DatabaseFieldTiers(w)
            /\ result[w].body.connection_status =
                  (IF HasHandle(w) /\ probe[w].imp.nameExc = NoExc
                   THEN "Connected" ELSE "Not Connected")

NameReadFailed ==
    \E w \in Workers :
        /\ Done(w, "test_database") /\ result[w].status = 200
        /\ HasHandle(w)
        /\ probe[w].imp.nameExc # NoExc
        /\ result[w].body.connection_status = "Not Connected"

EnumerationFailedConnected ==
    \E w \in Workers :
        /\ Done(w, "test_database") /\ result[w].status = 200
        /\ probe[w].listed /\ probe[w].lst.exc # NoExc
        /\ result[w].body.connection_status = "Connected"

====
